---- MODULE Spec2Model ----
(***************************************************************************)
(* A model of twitch_downloader.py: the three stages of one script run     *)
(* (fetch_chat, fetch_audio, transcribe_audio) over the files of one video *)
(* id, and the chunked transcription loop of transcribe_audio.             *)
(*                                                                         *)
(* Times are counted in ticks; TicksPerMs ticks make one millisecond, so a *)
(* float number of seconds x is the integer x * TicksPerSec.  Sample       *)
(* counts and sample indices are plain integers.                           *)
(***************************************************************************)
EXTENDS Integers, Sequences, FiniteSets, TLC

\* ------------------------------------------------------------------ bounds

\* Script runs (processes) for the one video id that the model follows.
MaxRuns == 2
\* Segments the engine emits in one run, over all chunks.
MaxSegs == 3
\* Segments the engine emits for one chunk.
MaxPerChunk == 2
\* Buffer lengths (samples) and sample rates of the segmenter specification.
MaxSamples == 400
MaxRate == 2

\* --------------------------------------------------------------- constants

\* chunk_sec = 120
chunk_sec == 120

\* The resolution of a time value: seg.start is a float of seconds, which
\* the model keeps to a tenth of a millisecond.
TicksPerMs == 10
TicksPerSec == 1000 * TicksPerMs

\* The files of one video id (the paths of __init__).
chat_html_path == "chat_html"
chat_tsv_path == "chat_tsv"
audio_m4a_path == "m4a"
wav_path == "wav"
transcript_tsv_path == "transcript_tsv"
Paths == {chat_html_path, chat_tsv_path, audio_m4a_path, wav_path, transcript_tsv_path}

\* ------------------------------------------------------- pure computations

Min(a, b) == IF a <= b THEN a ELSE b

\* math.ceil(a / b), b > 0
CeilDiv(a, b) == (a + b - 1) \div b

\* chunk_size = int(chunk_sec * sr); sr is the integer rate sf.read returns
ChunkSize(rate) == chunk_sec * rate

\* num_chunk = math.ceil(len(sf_audio) / chunk_size)
\* (a variant that rounds down: num_chunk = len(sf_audio) // chunk_size)
NumChunkFloor(n, cs) == n \div cs
NumChunk(n, cs) == CeilDiv(n, cs)

\* start = idx * chunk_size
ChunkStart(i, cs) == i * cs

\* end = min(start + chunk_size, len(sf_audio))
ChunkEnd(i, cs, n) == Min(ChunkStart(i, cs) + cs, n)

\* offset = start / sr, in ticks
\* (a variant that leaves the offset in samples: offset = start)
OffsetInSamples(start, rate) == start * TicksPerSec
Offset(start, rate) == (start * TicksPerSec) \div rate

\* {'start': seg.start + offset, 'end': seg.end + offset, 'text': seg.text}
Reconcile(seg, offset) ==
    [start |-> seg.start + offset, end |-> seg.end + offset, text |-> seg.text]

\* ---- _format_ts: the string is a sequence of one-character strings

DigitChars == <<"0", "1", "2", "3", "4", "5", "6", "7", "8", "9">>
Digit(d) == DigitChars[d + 1]

RECURSIVE Digits(_)
Digits(n) == IF n < 10 THEN <<Digit(n)>> ELSE Digits(n \div 10) \o <<Digit(n % 10)>>

\* the 0-padding of :02d and :06.3f
ZeroPad(cs, w) ==
    IF Len(cs) >= w THEN cs ELSE [i \in 1..(w - Len(cs)) |-> "0"] \o cs

\* {s:06.3f}: s (ticks) rounded to the nearest millisecond, then rendered as
\* seconds, a point and three decimals, at least six characters wide.  A
\* value exactly half way between two milliseconds is rounded up here; the
\* inputs of the model avoid such values.
RoundMs(s) == (2 * s + TicksPerMs) \div (2 * TicksPerMs)
FormatSeconds(s) ==
    LET ms == RoundMs(s)
    IN  ZeroPad(Digits(ms \div 1000), 2) \o <<".">> \o ZeroPad(Digits(ms % 1000), 3)

\* h, rem = divmod(t, 3600); m, s = divmod(rem, 60)
\* f"{int(h):02d}:{int(m):02d}:{s:06.3f}"
format_ts(t) ==
    LET h == t \div (3600 * TicksPerSec)
        rem == t % (3600 * TicksPerSec)
        m == rem \div (60 * TicksPerSec)
        s == rem % (60 * TicksPerSec)
    IN  ZeroPad(Digits(h), 2) \o <<":">> \o ZeroPad(Digits(m), 2) \o <<":">> \o FormatSeconds(s)

\* ---- transcript_df.sort_values('start'): pandas' default kind is
\* 'quicksort', which is not a stable sort, so the rows come out in some
\* order that is ascending in 'start'; rows of equal 'start' in any order.
\* An order is the argsort: order[i] is the accumulation index of row i.

Perms(n) == {p \in [1..n -> 1..n] : \A i, j \in 1..n : i # j => p[i] # p[j]}

Ascending(segs, p) ==
    \A i \in 1..(Len(segs) - 1) : segs[p[i]].start <= segs[p[i + 1]].start

\* (a variant that leaves the rows as accumulated)
sort_values_Unsorted(segs) == {[i \in 1..Len(segs) |-> i]}
sort_values(segs) == {p \in Perms(Len(segs)) : Ascending(segs, p)}

\* transcript_df['time'] = transcript_df['start'].apply(_format_ts)
\* transcript_df = transcript_df[['time', 'text']]
Rows(segs, p) ==
    [i \in 1..Len(segs) |-> [time |-> format_ts(segs[p[i]].start), text |-> segs[p[i]].text]]

\* ------------------------------------------------------------------ inputs

\* What the engine may report for one chunk, in the chunk's local time: a
\* segment inside the chunk, one at local time 0, a zero-length one that
\* starts where another starts, and one that overruns the end of a full chunk.
RawSegments ==
    { [start |-> 5 * TicksPerSec, end |-> 7 * TicksPerSec + 500 * TicksPerMs, text |-> "hello"],
      [start |-> 0, end |-> 2 * TicksPerSec, text |-> "world"],
      [start |-> 5 * TicksPerSec, end |-> 5 * TicksPerSec, text |-> "uh"],
      [start |-> chunk_sec * TicksPerSec, end |-> (chunk_sec + 1) * TicksPerSec, text |-> "over"] }

\* The finite sequences of segments of one chunk, in any order.
RECURSIVE SeqsUpTo(_, _)
SeqsUpTo(S, n) ==
    IF n = 0 THEN {<<>>}
    ELSE LET shorter == SeqsUpTo(S, n - 1)
         IN  shorter \cup {Append(q, x) : q \in {r \in shorter : Len(r) = n - 1}, x \in S}

EngineOutputs(room) == SeqsUpTo(RawSegments, Min(MaxPerChunk, room))

\* The wav files ffmpeg may leave: a length in samples and a sample rate.
AudioLengths == {0, 100, 250}
SampleRates == {1, 2}
AudioFiles == [len : AudioLengths, rate : SampleRates]
NoAudio == [len |-> 0, rate |-> 0]

\* A transcript left by an earlier transcription.
PriorTranscript ==
    <<[time |-> <<"0", "0", ":", "0", "0", ":", "0", "1", ".", "0", "0", "0">>, text |-> "prior"]>>

\* ------------------------------------------------------------------- state

VARIABLES
    files,          \* the paths that exist (os.path.exists)
    wav_data,       \* what the wav file holds
    transcript_tsv, \* the rows of the transcript file
    pc,             \* where the running script is
    outcome,        \* how the script ended, "running" until then
    sf_len,         \* len(sf_audio)
    sr,             \* sr
    chunk_size,     \* chunk_size
    num_chunk,      \* num_chunk
    idx,            \* idx: the chunks taken so far
    all_segments,   \* all_segments
    order,          \* the row order sort_values chose
    run,            \* the number of the script run
    stages,         \* the stages this run has entered, in order
    created,        \* the paths this run wrote
    html_at_start,  \* whether the chat HTML existed when this run began
    writers,        \* the runs that wrote the transcript
    chunks,         \* the [start, end) ranges this run sliced
    emitted,        \* per accumulated segment: its chunk and the engine's segment
    failed          \* the chunk whose decoding failed, -1 if none

vars == <<files, wav_data, transcript_tsv, pc, outcome, sf_len, sr, chunk_size,
          num_chunk, idx, all_segments, order, run, stages, created,
          html_at_start, writers, chunks, emitted, failed>>

disk == <<files, wav_data, transcript_tsv>>
locals == <<sf_len, sr, chunk_size, num_chunk, idx, all_segments, order, chunks, emitted, failed>>

\* The locals of transcribe_audio before it reads the audio.
NoLocals ==
    /\ sf_len = 0 /\ sr = 0 /\ chunk_size = 0 /\ num_chunk = 0 /\ idx = 0
    /\ all_segments = <<>> /\ order = <<>> /\ chunks = <<>> /\ emitted = <<>>
    /\ failed = -1

\* __main__: a run of the script for the video id, over whatever files
\* earlier runs or the user left in the output directory.
Init ==
    /\ files \in SUBSET Paths
    /\ wav_data \in (IF wav_path \in files THEN AudioFiles ELSE {NoAudio})
    /\ transcript_tsv = (IF transcript_tsv_path \in files THEN PriorTranscript ELSE <<>>)
    /\ pc = "fetch_chat"
    /\ outcome = "running"
    /\ NoLocals
    /\ run = 1
    /\ stages = <<>>
    /\ created = {}
    /\ html_at_start = (chat_html_path \in files)
    /\ writers = {}

\* sys.exit(1) and an uncaught exception both end the process.
Ends(how) ==
    /\ pc' = "end"
    /\ outcome' = how

\* ------------------------------------------------------------- fetch_chat

FetchChatExists ==
    /\ pc = "fetch_chat"
    /\ chat_html_path \in files
    /\ stages' = Append(stages, "fetch_chat")
    /\ Ends("sys.exit(1)")
    /\ UNCHANGED <<disk, locals, run, created, html_at_start, writers>>

\* The download writes the chat HTML or fails; open() raises when the file
\* is not there; the TSV is written when the HTML holds comments.
FetchChatBody ==
    /\ pc = "fetch_chat"
    /\ stages' = Append(stages, "fetch_chat")
    /\ \E downloaded \in BOOLEAN, has_data \in BOOLEAN :
         LET wrote == (IF downloaded THEN {chat_html_path} ELSE {})
                        \cup (IF (downloaded \/ chat_html_path \in files) /\ has_data
                              THEN {chat_tsv_path} ELSE {})
         IN  /\ files' = files \cup wrote
             /\ created' = created \cup wrote
             /\ IF chat_html_path \in files'
                THEN pc' = "fetch_audio" /\ outcome' = outcome
                ELSE Ends("FileNotFoundError")
    /\ UNCHANGED <<wav_data, transcript_tsv, locals, run, html_at_start, writers>>
\* (a variant without the check for an existing chat HTML)
FetchChatUnguarded == FetchChatBody
FetchChat ==
    /\ chat_html_path \notin files
    /\ FetchChatBody

\* ------------------------------------------------------------ fetch_audio

FetchAudioExists ==
    /\ pc = "fetch_audio"
    /\ wav_path \in files
    /\ stages' = Append(stages, "fetch_audio")
    /\ Ends("sys.exit(1)")
    /\ UNCHANGED <<disk, locals, run, created, html_at_start, writers>>

\* yt-dlp writes the m4a or fails; ffmpeg writes the wav from the m4a or
\* fails; neither result is looked at.
FetchAudio ==
    /\ pc = "fetch_audio"
    /\ wav_path \notin files
    /\ stages' = Append(stages, "fetch_audio")
    /\ \E downloaded \in BOOLEAN, converted \in BOOLEAN, audio \in AudioFiles :
         LET m4a == IF downloaded THEN {audio_m4a_path} ELSE {}
             wav == IF converted /\ audio_m4a_path \in (files \cup m4a) THEN {wav_path} ELSE {}
         IN  /\ files' = files \cup m4a \cup wav
             /\ created' = created \cup m4a \cup wav
             /\ wav_data' = (IF wav # {} THEN audio ELSE wav_data)
    /\ pc' = "transcribe_audio"
    /\ UNCHANGED <<transcript_tsv, outcome, locals, run, html_at_start, writers>>

\* ------------------------------------------------------- transcribe_audio

TranscriptExists ==
    /\ pc = "transcribe_audio"
    /\ transcript_tsv_path \in files
    /\ stages' = Append(stages, "transcribe_audio")
    /\ Ends("sys.exit(1)")
    /\ UNCHANGED <<disk, locals, run, created, html_at_start, writers>>

\* sf.read raises when ffmpeg left no wav file.
ReadAudioFails ==
    /\ pc = "transcribe_audio"
    /\ transcript_tsv_path \notin files
    /\ wav_path \notin files
    /\ stages' = Append(stages, "transcribe_audio")
    /\ Ends("LibsndfileError")
    /\ UNCHANGED <<disk, locals, run, created, html_at_start, writers>>

\* sf_audio, sr = sf.read(...) up to all_segments = []
ReadAudioBody ==
    /\ pc = "transcribe_audio"
    /\ wav_path \in files
    /\ stages' = Append(stages, "transcribe_audio")
    /\ sf_len' = wav_data.len
    /\ sr' = wav_data.rate
    /\ chunk_size' = ChunkSize(wav_data.rate)
    /\ num_chunk' = NumChunk(wav_data.len, ChunkSize(wav_data.rate))
    /\ idx' = 0
    /\ all_segments' = <<>>
    /\ pc' = "loop"
    /\ UNCHANGED <<disk, outcome, order, chunks, emitted, failed, run, created,
                   html_at_start, writers>>
\* (a variant without the check for an existing transcript)
ReadAudioUnguarded == ReadAudioBody
ReadAudio ==
    /\ transcript_tsv_path \notin files
    /\ ReadAudioBody

\* One pass of the loop body over the segments the engine yields for the chunk.
Accumulate(segs) ==
    LET start == ChunkStart(idx, chunk_size)
        end == ChunkEnd(idx, chunk_size, sf_len)
        offset == Offset(start, sr)
    IN  /\ chunks' = Append(chunks, [start |-> start, end |-> end])
        /\ all_segments' = all_segments \o [i \in 1..Len(segs) |-> Reconcile(segs[i], offset)]
        /\ emitted' = emitted \o [i \in 1..Len(segs) |-> [chunk |-> idx, first |-> start, raw |-> segs[i]]]

TranscribeChunkWith(segs) ==
    /\ pc = "loop"
    /\ idx < num_chunk
    /\ Accumulate(segs)
    /\ idx' = idx + 1
    /\ UNCHANGED <<disk, pc, outcome, sf_len, sr, chunk_size, num_chunk, order, failed,
                   run, stages, created, html_at_start, writers>>

TranscribeChunk ==
    \E segs \in EngineOutputs(MaxSegs - Len(all_segments)) : TranscribeChunkWith(segs)

\* whisper_model.transcribe, or the iteration of the generator it returns,
\* raises: nothing catches it, and the segments yielded before it stay
\* accumulated in a list that is never written.
EngineFails ==
    /\ pc = "loop"
    /\ idx < num_chunk
    /\ \E segs \in EngineOutputs(MaxSegs - Len(all_segments)) : Accumulate(segs)
    /\ failed' = idx
    /\ Ends("EngineError")
    /\ UNCHANGED <<disk, sf_len, sr, chunk_size, num_chunk, idx, order,
                   run, stages, created, html_at_start, writers>>

\* (a variant that writes the empty frame to the transcript file)
NoTranscriptDataWritesEmpty ==
    /\ pc = "loop"
    /\ idx = num_chunk
    /\ all_segments = <<>>
    /\ files' = files \cup {transcript_tsv_path}
    /\ transcript_tsv' = <<>>
    /\ created' = created \cup {transcript_tsv_path}
    /\ Ends("No transcript data found.")
    /\ UNCHANGED <<wav_data, locals, run, stages, html_at_start, writers>>

\* if not all_segments: print('No transcript data found.')
NoTranscriptData ==
    /\ pc = "loop"
    /\ idx = num_chunk
    /\ all_segments = <<>>
    /\ Ends("No transcript data found.")
    /\ UNCHANGED <<disk, locals, run, stages, created, html_at_start, writers>>

\* else: sort, format, select the columns, to_csv
WriteTranscript ==
    /\ pc = "loop"
    /\ idx = num_chunk
    /\ all_segments # <<>>
    /\ \E p \in sort_values(all_segments) :
         /\ order' = p
         /\ transcript_tsv' = Rows(all_segments, p)
    /\ files' = files \cup {transcript_tsv_path}
    /\ created' = created \cup {transcript_tsv_path}
    /\ writers' = writers \cup {run}
    /\ Ends("Transcript saved")
    /\ UNCHANGED <<wav_data, sf_len, sr, chunk_size, num_chunk, idx, all_segments,
                   chunks, emitted, failed, run, stages, html_at_start>>

\* ------------------------------------------------------------ the next run

\* The script is started again for the same video id; no file was deleted.
StartRun ==
    /\ pc = "end"
    /\ run < MaxRuns
    /\ run' = run + 1
    /\ pc' = "fetch_chat"
    /\ outcome' = "running"
    /\ sf_len' = 0 /\ sr' = 0 /\ chunk_size' = 0 /\ num_chunk' = 0 /\ idx' = 0
    /\ all_segments' = <<>> /\ order' = <<>> /\ chunks' = <<>> /\ emitted' = <<>>
    /\ failed' = -1
    /\ stages' = <<>>
    /\ created' = {}
    /\ html_at_start' = (chat_html_path \in files)
    /\ UNCHANGED <<disk, writers>>

Next ==
    \/ FetchChatExists
    \/ FetchChat
    \/ FetchAudioExists
    \/ FetchAudio
    \/ TranscriptExists
    \/ ReadAudioFails
    \/ ReadAudio
    \/ TranscribeChunk
    \/ EngineFails
    \/ NoTranscriptData
    \/ WriteTranscript
    \/ StartRun

Spec == Init /\ [][Next]_vars

\* ------------------------------------------- the segmenter on its own

\* transcribe_audio from its first line, for every buffer length and rate
\* within the bounds, with an engine that hears nothing: the chat HTML, the
\* m4a and the wav were written by this run.
InitSegmenter ==
    /\ files = {chat_html_path, audio_m4a_path, wav_path}
    /\ wav_data \in [len : 1..MaxSamples, rate : 1..MaxRate]
    /\ transcript_tsv = <<>>
    /\ pc = "transcribe_audio"
    /\ outcome = "running"
    /\ NoLocals
    /\ run = 1
    /\ stages = <<"fetch_chat", "fetch_audio">>
    /\ created = {chat_html_path, audio_m4a_path, wav_path}
    /\ html_at_start = FALSE
    /\ writers = {}

TranscribeSilence == TranscribeChunkWith(<<>>)

NextSegmenter ==
    \/ ReadAudio
    \/ TranscribeSilence
    \/ NoTranscriptData

SpecSegmenter == InitSegmenter /\ [][NextSegmenter]_vars

\* ------------------------------------------- the formatter on its own

\* Global start times: whole seconds around the minute and hour carries,
\* with fractions of a second that fall on a millisecond or beside one.
FormatWholeSeconds == {0, 5, 59, 60, 119, 125, 3599, 3600, 3725, 86399, 180000}
FormatFractions == {0, 1230, 4994, 9994, 9996, 9999}
FormatInputs == {w * TicksPerSec + f : w \in FormatWholeSeconds, f \in FormatFractions}

\* transcribe_audio at the end of its loop over a buffer whose last chunk
\* yielded the one segment of the run, at global start time t.
InitFormat ==
    \E t \in FormatInputs :
      LET c == t \div (chunk_sec * TicksPerSec)
          local == t % (chunk_sec * TicksPerSec)
          raw == [start |-> local, end |-> local, text |-> "hello"]
      IN  /\ files = {chat_html_path, audio_m4a_path, wav_path}
          /\ wav_data = [len |-> (c + 1) * chunk_sec, rate |-> 1]
          /\ transcript_tsv = <<>>
          /\ pc = "loop"
          /\ outcome = "running"
          /\ sf_len = (c + 1) * chunk_sec
          /\ sr = 1
          /\ chunk_size = ChunkSize(1)
          /\ num_chunk = c + 1
          /\ idx = c + 1
          /\ all_segments = <<Reconcile(raw, Offset(ChunkStart(c, ChunkSize(1)), 1))>>
          /\ order = <<>>
          /\ chunks = [i \in 1..(c + 1) |->
                         [start |-> ChunkStart(i - 1, ChunkSize(1)),
                          end |-> ChunkEnd(i - 1, ChunkSize(1), (c + 1) * chunk_sec)]]
          /\ emitted = <<[chunk |-> c, first |-> ChunkStart(c, ChunkSize(1)), raw |-> raw]>>
          /\ failed = -1
          /\ run = 1
          /\ stages = <<"fetch_chat", "fetch_audio", "transcribe_audio">>
          /\ created = {chat_html_path, audio_m4a_path, wav_path}
          /\ html_at_start = FALSE
          /\ writers = {}

NextFormat == WriteTranscript

SpecFormat == InitFormat /\ [][NextFormat]_vars

\* ================================================================= claims

Last(q) == q[Len(q)]
AudioWasRead == chunk_size > 0
NormalEnds == {"No transcript data found.", "Transcript saved"}
ExitsUntouched == pc' = "end" /\ outcome' = "sys.exit(1)" /\ UNCHANGED disk
ChunkLen(c) == c.end - c.start

\* C1: for a buffer of N > 0 samples and chunk size chunk_sec * sr > 0 the
\* ranges the loop slices are contiguous from 0, non-empty and inside [0, N);
\* once the loop is over they are ceil(N / chunkSize) ranges that end at N:
\* k full ones when N = k * chunkSize, and k full ones followed by one of
\* length r when N = k * chunkSize + r with 0 < r < chunkSize.
C1_ChunksCoverBuffer ==
    AudioWasRead =>
      LET cs == chunk_sec * sr
          k == sf_len \div cs
          r == sf_len % cs
      IN  /\ Len(chunks) = idx
          /\ \A i \in 1..Len(chunks) :
               /\ chunks[i].start = (IF i = 1 THEN 0 ELSE chunks[i - 1].end)
               /\ chunks[i].start < chunks[i].end
               /\ chunks[i].end <= sf_len
          /\ (idx = num_chunk \/ pc = "end") =>
               /\ Len(chunks) = (IF r = 0 THEN k ELSE k + 1)
               /\ Last(chunks).end = sf_len
               /\ \A i \in 1..k : ChunkLen(chunks[i]) = cs
               /\ r > 0 => ChunkLen(Last(chunks)) = r

\* A 250-sample buffer at rate 1 was sliced into 120, 120 and 10 samples.
C1_Witness ==
    /\ pc = "end"
    /\ sr = 1
    /\ sf_len = 250
    /\ Len(chunks) = 3
    /\ chunks[3] = [start |-> 240, end |-> 250]

\* C2: every accumulated segment is the engine's segment moved by its
\* chunk's first sample index divided by the sample rate, start and end
\* alike, with the text unchanged; the segment {5.0, 7.5, "hello"} of the
\* chunk that begins 120 s into the buffer is stored as {125.0, 127.5, "hello"}.
C2_OffsetFromFirstSample ==
    /\ Len(all_segments) = Len(emitted)
    /\ \A i \in 1..Len(all_segments) :
         LET g == all_segments[i]
             e == emitted[i]
         IN  /\ e.first = chunks[e.chunk + 1].start
             /\ (g.start - e.raw.start) * sr = e.first * TicksPerSec
             /\ (g.end - e.raw.end) * sr = e.first * TicksPerSec
             /\ g.text = e.raw.text
             /\ (e.first = chunk_sec * sr /\ e.raw.text = "hello") =>
                  g = [start |-> 125 * TicksPerSec,
                       end |-> 127 * TicksPerSec + 500 * TicksPerMs,
                       text |-> "hello"]

\* The second chunk of a 250 s buffer yielded "hello".
C2_Witness ==
    /\ sf_len = 250 * sr
    /\ \E i \in 1..Len(emitted) :
         /\ emitted[i].chunk = 1
         /\ emitted[i].raw.text = "hello"
         /\ all_segments[i].start = 125 * TicksPerSec

\* C3: the written transcript holds one row per accumulated segment, in an
\* order whose global start times never decrease from a row to the next.
C3_TranscriptSorted ==
    outcome = "Transcript saved" =>
      /\ Len(order) = Len(all_segments)
      /\ Len(transcript_tsv) = Len(all_segments)
      /\ {order[i] : i \in 1..Len(order)} = 1..Len(all_segments)
      /\ \A i \in 1..Len(order) : transcript_tsv[i].text = all_segments[order[i]].text
      /\ \A i \in 1..(Len(order) - 1) :
           all_segments[order[i]].start <= all_segments[order[i + 1]].start

\* A transcript was written from segments accumulated out of order.
C3_Witness ==
    /\ outcome = "Transcript saved"
    /\ \E i, j \in 1..Len(all_segments) :
         i < j /\ all_segments[i].start > all_segments[j].start

\* C4: rows of equal global start keep their accumulation order.
C4_SortIsStable ==
    outcome = "Transcript saved" =>
      \A i, j \in 1..Len(order) :
        (i < j /\ all_segments[order[i]].start = all_segments[order[j]].start)
          => order[i] < order[j]

\* C5: transcribe_audio entered while the transcript exists exits the
\* process at once: no audio is read, no chunk is sliced or decoded, and no
\* file, the transcript included, changes.
C5_ExistingTranscriptAborts ==
    [][(pc = "transcribe_audio" /\ transcript_tsv_path \in files)
         => (ExitsUntouched /\ UNCHANGED locals /\ ~AudioWasRead' /\ chunks' = <<>>)]_vars

\* A run got past both downloads and stopped at the existing transcript.
C5_Witness ==
    /\ stages = <<"fetch_chat", "fetch_audio", "transcribe_audio">>
    /\ outcome = "sys.exit(1)"
    /\ transcript_tsv = PriorTranscript
    /\ wav_path \in created

\* C6: a run in which the engine failed on a chunk still takes every chunk
\* and ends normally.
C6_FailedChunkDoesNotAbort ==
    (failed # -1 /\ pc = "end") => (idx = num_chunk /\ outcome \in NormalEnds)

\* C7: an empty buffer never ends the run as a normal run of zero chunks,
\* and a non-empty buffer never has zero chunks.
C7_EmptyBufferIsInvalidInput ==
    /\ (AudioWasRead /\ sf_len = 0 /\ pc = "end") => outcome \notin NormalEnds
    /\ (AudioWasRead /\ sf_len > 0) => num_chunk > 0

\* C8: when the loop over a non-empty buffer is over with nothing
\* accumulated, the run ends with "No transcript data found.", and it leaves
\* every file as it was: no transcript is written and no row is produced.
C8_EmptyResult ==
    /\ [][(pc = "loop" /\ idx = num_chunk /\ sf_len > 0 /\ all_segments = <<>>)
            => (pc' = "end" /\ outcome' = "No transcript data found." /\ UNCHANGED disk)]_vars
    /\ [](outcome = "No transcript data found." =>
            /\ order = <<>>
            /\ transcript_tsv_path \notin created
            /\ run \notin writers)

\* Every chunk of a buffer of two or more chunks yielded nothing.
C8_Witness ==
    /\ outcome = "No transcript data found."
    /\ num_chunk >= 2
    /\ Len(chunks) = num_chunk
    /\ transcript_tsv_path \notin files

\* ---- reading a formatted time back

DigitValue(c) == CHOOSE d \in 0..9 : DigitChars[d + 1] = c
AllDigits(cs) == \A i \in 1..Len(cs) : \E d \in 0..9 : DigitChars[d + 1] = cs[i]
RECURSIVE Value(_)
Value(cs) == IF cs = <<>> THEN 0 ELSE 10 * Value(SubSeq(cs, 1, Len(cs) - 1)) + DigitValue(Last(cs))

\* C9: the time of a row is HH:MM:SS.mmm with at least two hour digits,
\* hours = floor(t / 3600), minutes = floor((t mod 3600) / 60) < 60, and a
\* seconds field that is t mod 60 to the nearest millisecond and is below 60.
C9_FormatFields ==
    outcome = "Transcript saved" =>
      LET t == all_segments[order[1]].start
          str == transcript_tsv[1].time
          n == Len(str)
          hh == SubSeq(str, 1, n - 10)
          mm == SubSeq(str, n - 8, n - 7)
          ss == SubSeq(str, n - 5, n - 4)
          mmm == SubSeq(str, n - 2, n)
          field == (Value(ss) * 1000 + Value(mmm)) * TicksPerMs
          exact == t % (60 * TicksPerSec)
      IN  /\ n >= 12
          /\ str[n - 9] = ":" /\ str[n - 6] = ":" /\ str[n - 3] = "."
          /\ AllDigits(hh) /\ AllDigits(mm) /\ AllDigits(ss) /\ AllDigits(mmm)
          /\ Value(hh) = t \div (3600 * TicksPerSec)
          /\ Value(mm) = (t % (3600 * TicksPerSec)) \div (60 * TicksPerSec)
          /\ 2 * (field - exact) <= TicksPerMs
          /\ 2 * (exact - field) <= TicksPerMs
          /\ Value(mm) < 60
          /\ Value(ss) < 60

\* C10: the stages of a run are entered in the order fetch_chat,
\* fetch_audio, transcribe_audio; a stage entered while its artifact exists
\* exits the process and changes no file; a run that began with the chat
\* HTML present enters no stage after fetch_chat and writes nothing; at most
\* one run writes the transcript, and that run also wrote the chat HTML and
\* the wav file.
C10_StagesGuardArtifacts ==
    /\ [](/\ \E n \in 0..3 : stages = SubSeq(<<"fetch_chat", "fetch_audio", "transcribe_audio">>, 1, n)
          /\ html_at_start => (Len(stages) <= 1 /\ created = {} /\ pc \in {"fetch_chat", "end"})
          /\ Cardinality(writers) <= 1
          /\ transcript_tsv_path \in created => {chat_html_path, wav_path} \subseteq created)
    /\ [][/\ (pc = "fetch_chat" /\ chat_html_path \in files) => ExitsUntouched
          /\ (pc = "fetch_audio" /\ wav_path \in files) => ExitsUntouched
          /\ (pc = "transcribe_audio" /\ transcript_tsv_path \in files) => ExitsUntouched]_vars

\* The run after the one that wrote the transcript stopped in fetch_chat.
C10_Witness ==
    /\ run = 2
    /\ writers = {1}
    /\ html_at_start
    /\ stages = <<"fetch_chat">>
    /\ outcome = "sys.exit(1)"

====
